---------------------------- MODULE Spec2Model ----------------------------
(***************************************************************************)
(* CounterPoint: the history store (utils.py), the report normalizer       *)
(* (Dashboard.py, parse_gemini_to_html), the three fetchers and the run of *)
(* the submit handler (Dashboard.py, lines 643-791).                       *)
(*                                                                         *)
(* The store file history.json is modelled as the sequence of chunks that  *)
(* json.dump hands to the file object: brackets, commas and one chunk per  *)
(* JSON value.  json.load is modelled as a parser of that chunk sequence.  *)
(***************************************************************************)
EXTENDS Integers, Sequences, FiniteSets, TLC

(***************************************************************************)
(* Bounds of the model.                                                    *)
(***************************************************************************)
MaxAppends == 3        \* save_search calls started in one behaviour
MaxRaceAppends == 2    \* the same, when two processes share the store
MaxCrashes == 1        \* process crashes in one behaviour
MaxLines == 3          \* lines of the raw text given to the normalizer

Writers == {"w1", "w2"}
\* The (topic, confidence_score) pairs save_search is called with, and the
\* values datetime.now() may give (the wall clock may stand still or step back).
Requests == {<<"A", "85">>, <<"B", "N/A">>}
Times == {1, 2}

(***************************************************************************)
(* History entries (utils.py, new_entry).                                  *)
(***************************************************************************)
NewEntry(ts, topic, confidence_score, report_html, x_intel_data) ==
    [timestamp |-> ts, topic |-> topic, confidence_score |-> confidence_score,
     report_html |-> report_html, x_intel_data |-> x_intel_data]

NoEntry == NewEntry(0, "", "", "", "")

(***************************************************************************)
(* Chunks of the JSON text.  t is the kind of the chunk: "[", "]", ",",    *)
(* "obj" (a JSON object, v holds its fields), "num" (a number), "null",    *)
(* "junk" (text that is no JSON) and "nul" (a hole left by a write past    *)
(* the end of the file).                                                   *)
(***************************************************************************)
Tok(kind) == [t |-> kind, v |-> NoEntry]
ObjTok(e) == [t |-> "obj", v |-> e]

ValueKinds == {"obj", "num", "null"}

(***************************************************************************)
(* Python values that json.load can return: a list (items), a dict, an     *)
(* int or None.                                                            *)
(***************************************************************************)
PyList(items) == [kind |-> "list", items |-> items, obj |-> NoEntry]
PyScalar(tok) ==
    [kind |-> CASE tok.t = "obj" -> "dict"
                [] tok.t = "num" -> "int"
                [] OTHER -> "NoneType",
     items |-> <<>>, obj |-> tok.v]

(***************************************************************************)
(* json.dump(history, f, indent=2): the chunks written for a list.         *)
(***************************************************************************)
RECURSIVE JoinItems(_)
JoinItems(items) ==
    IF Len(items) = 0 THEN <<>>
    ELSE IF Len(items) = 1 THEN <<items[1]>>
    ELSE <<items[1], Tok(",")>> \o JoinItems(Tail(items))

json_dump(items) == <<Tok("[")>> \o JoinItems(items) \o <<Tok("]")>>

(***************************************************************************)
(* json.load(f): a single value chunk is that value; a bracketed,          *)
(* comma-separated sequence of value chunks is a list; anything else       *)
(* raises JSONDecodeError (ok = FALSE).                                    *)
(***************************************************************************)
Inner(c) == SubSeq(c, 2, Len(c) - 1)

IsListText(c) ==
    /\ Len(c) >= 2
    /\ c[1].t = "[" /\ c[Len(c)].t = "]"
    /\ LET inner == Inner(c)
       IN  \/ Len(inner) = 0
           \/ /\ Len(inner) % 2 = 1
              /\ \A i \in 1..Len(inner) :
                    IF i % 2 = 1 THEN inner[i].t \in ValueKinds
                                 ELSE inner[i].t = ","

Elements(c) ==
    LET inner == Inner(c)
    IN  [i \in 1..((Len(inner) + 1) \div 2) |-> inner[2 * i - 1]]

json_load(c) ==
    IF Len(c) = 1 /\ c[1].t \in ValueKinds
    THEN [ok |-> TRUE, val |-> PyScalar(c[1])]
    ELSE IF IsListText(c)
    THEN [ok |-> TRUE, val |-> PyList(Elements(c))]
    ELSE [ok |-> FALSE, val |-> PyList(<<>>)]

(***************************************************************************)
(* load_history(): [] when the file is missing or json.load raises, else   *)
(* whatever json.load returns.                                             *)
(***************************************************************************)
load_history(fexists, fcontent) ==
    IF ~fexists THEN PyList(<<>>)
    ELSE LET r == json_load(fcontent)
         IN  IF r.ok THEN r.val ELSE PyList(<<>>)

(***************************************************************************)
(* len(history) and history[index] as Python evaluates them.               *)
(***************************************************************************)
HasLen(h) == h.kind \in {"list", "dict"}
PyLen(h) == IF h.kind = "list" THEN Len(h.items)
            ELSE Cardinality(DOMAIN h.obj)

(***************************************************************************)
(* What a call gives back: out is "None", "value" (elem is the value) or   *)
(* "raise" (an exception leaves the call).                                 *)
(***************************************************************************)
Result(out, elem) == [out |-> out, elem |-> elem]

(***************************************************************************)
(* get_search_by_index(index).  `0 <= index < len(history)` is a chained   *)
(* comparison: len is not evaluated for a negative index.  len of an int   *)
(* or of None raises TypeError; indexing a dict by an int raises KeyError. *)
(***************************************************************************)
get_search_by_index(h, index) ==
    IF index < 0 THEN Result("None", Tok("-"))
    ELSE IF ~HasLen(h) THEN Result("raise", Tok("-"))
    ELSE IF index < PyLen(h)
    THEN IF h.kind = "list" THEN Result("value", h.items[index + 1])
                            ELSE Result("raise", Tok("-"))
    ELSE Result("None", Tok("-"))

(***************************************************************************)
(* history.insert(0, new_entry).                                           *)
(***************************************************************************)
insert_back(items, e) == items \o <<ObjTok(e)>>
insert_none(items, e) == items

insert_front(items, e) == <<ObjTok(e)>> \o items

(***************************************************************************)
(* A write of one chunk at file offset p (1-based).  A write past the end  *)
(* of the file leaves a hole of NUL bytes.                                 *)
(***************************************************************************)
WriteAt(c, p, tok) ==
    [i \in 1..(IF p > Len(c) THEN p ELSE Len(c)) |->
        IF i = p THEN tok
        ELSE IF i <= Len(c) THEN c[i]
        ELSE Tok("nul")]

(***************************************************************************)
(* The report normalizer, parse_gemini_to_html.  A line of the raw text is *)
(* a sequence of atoms: a space, a tab, a bullet glyph, a percent sign, a  *)
(* colon, or a word.  The words that hold a header keyword are the atoms   *)
(* named here, in upper or in lower case; no other atom holds one.         *)
(***************************************************************************)
BULLET == "U+2022"
CONF == "CONFIDENCE:"
NA == <<"N/A">>

Whitespace == {" ", "\t"}          \* what str.strip() removes
BulletChars == {BULLET, "-", "*", " "}   \* what line.lstrip(... ) removes
Glyphs == {BULLET, "-", "*"}

RECURSIVE lstrip(_, _)
lstrip(line, chars) ==
    IF Len(line) > 0 /\ line[1] \in chars THEN lstrip(Tail(line), chars)
    ELSE line

RECURSIVE rstrip(_, _)
rstrip(line, chars) ==
    IF Len(line) > 0 /\ line[Len(line)] \in chars
    THEN rstrip(SubSeq(line, 1, Len(line) - 1), chars)
    ELSE line

\* str.strip()
strip(line) == rstrip(lstrip(line, Whitespace), Whitespace)

\* str.startswith(atom)
startswith(line, atom) == Len(line) > 0 /\ line[1] = atom

\* atom in line
contains(line, atom) == \E i \in 1..Len(line) : line[i] = atom

\* str.replace(atom, '')
remove(line, atom) == SelectSeq(line, LAMBDA a : a # atom)

\* str.upper()
UpperAtom(a) ==
    CASE a = "key findings" -> "KEY FINDINGS"
      [] a = "unverified" -> "UNVERIFIED"
      [] a = "summary" -> "SUMMARY"
      [] a = "confidence:" -> "CONFIDENCE:"
      [] a = "x" -> "X"
      [] a = "y" -> "Y"
      [] OTHER -> a
upper(line) == [i \in 1..Len(line) |-> UpperAtom(line[i])]

\* line 187: line.startswith('CONFIDENCE:')
IsConfidenceLine_anywhere(line) == contains(line, CONF)

IsConfidenceLine(line) == startswith(line, CONF)

\* line 188: line.replace('CONFIDENCE:', '').strip().replace('%', '')
confidence_of(line) == remove(strip(remove(line, CONF)), "%")

\* line 195: the line starts with a bullet glyph
IsBulletLine_noglyph(line) ==
    startswith(line, "-") \/ startswith(line, "*")

IsBulletLine(line) ==
    startswith(line, BULLET) \/ startswith(line, "-") \/ startswith(line, "*")

\* line 196: line.lstrip(bullet glyphs and space).strip()
bullet_text(line) == strip(lstrip(line, BulletChars))

\* lines 197-200: the bullet goes to the list of the current section
route_bullet_unsectioned(st, text) ==
    IF st.current_section = "unverified"
    THEN [st EXCEPT !.unverified = Append(@, text)]
    ELSE [st EXCEPT !.key_findings = Append(@, text)]

route_bullet(st, text) ==
    IF st.current_section = "findings"
    THEN [st EXCEPT !.key_findings = Append(@, text)]
    ELSE IF st.current_section = "unverified"
    THEN [st EXCEPT !.unverified = Append(@, text)]
    ELSE st

\* lines 174-179: the state before the first line
ParseStart ==
    [confidence |-> NA, key_findings |-> <<>>, unverified |-> <<>>,
     summary |-> <<>>, current_section |-> "None"]

\* lines 181-202: one pass of the loop body
Step(st, rawline) ==
    LET line == strip(rawline)
    IN  IF Len(line) = 0 THEN st
        ELSE IF IsConfidenceLine(line)
        THEN [st EXCEPT !.confidence = confidence_of(line)]
        ELSE IF contains(upper(line), "KEY FINDINGS")
        THEN [st EXCEPT !.current_section = "findings"]
        ELSE IF contains(upper(line), "UNVERIFIED")
        THEN [st EXCEPT !.current_section = "unverified"]
        ELSE IF contains(upper(line), "SUMMARY")
        THEN [st EXCEPT !.current_section = "summary"]
        ELSE IF IsBulletLine(line)
        THEN route_bullet(st, bullet_text(line))
        ELSE IF st.current_section = "summary"
        THEN [st EXCEPT !.summary = @ \o line \o <<" ">>]
        ELSE st

\* lines 171-202: the whole scan of a text
RECURSIVE Scan(_, _)
Scan(st, lines) ==
    IF Len(lines) = 0 THEN st ELSE Scan(Step(st, Head(lines)), Tail(lines))

\* The layout the synthesizer is told to use (verify_news, lines 148-154):
\* a KEY FINDINGS: header, one bullet line per finding, an UNVERIFIED:
\* header, one bullet line per unverified claim.
BulletLines(items) == [i \in 1..Len(items) |-> <<BULLET, " ">> \o items[i]]

CanonicalText(findings, unv) ==
    <<<<"KEY FINDINGS", ":">>>> \o BulletLines(findings)
        \o <<<<"UNVERIFIED", ":">>>> \o BulletLines(unv)

\* The lines the raw text is made of.
LineSet ==
    { <<CONF, " ", "85", "%">>,
      <<"x", " ", CONF, " ", "85">>,
      <<" ", CONF, "85", " ", "%">>,
      <<"KEY FINDINGS", ":">>,
      <<"*", "*", "key findings", "*", "*">>,
      <<"unverified">>,
      <<"SUMMARY", ":">>,
      <<BULLET, " ", "x">>,
      <<"-", " ", "y", " ">>,
      <<BULLET, " ", "x", " ", "summary">>,
      <<BULLET, "\t", "-", " ", "x">>,
      <<BULLET>>,
      <<"x", " ", "y">>,
      <<"UNVERIFIED", " ", "SUMMARY">>,
      <<" ">> }

RawTexts == UNION {[1..n -> LineSet] : n \in 1..MaxLines}

VARIABLES
    exists,       \* os.path.exists(HISTORY_FILE)
    content,      \* the chunks of history.json
    active,       \* the processes that run save_search
    wpc,          \* each writer's position in save_search
    new_entry,    \* save_search's local new_entry
    history,      \* save_search's local history
    wpos,         \* chunks of json.dump written so far
    calls,        \* save_search calls started
    crashes,      \* crashes so far
    log,          \* entries whose save_search returned, newest first
    fresh,        \* the store was missing or empty at the start
    pre,          \* the history in the store when save_search loaded it
    raw,          \* gemini_response.split('\n')
    ppc,          \* the normalizer's position: "scan", "done", "reparsed"
    ppos,         \* lines of raw scanned so far
    current_section,
    confidence,
    key_findings,
    unverified,
    summary,
    re_findings,  \* key_findings of the scan of the canonical text
    re_unverified, \* unverified of the scan of the canonical text
    env,          \* the environment variables that are set
    rpc,          \* the position of the run of the submit handler
    runs,         \* submits so far
    topic,        \* the text input
    demo_mode,    \* the demo checkbox
    news_results, \* the handler's local news_results
    verification_report, \* the handler's local verification_report
    x_intel,      \* the handler's local x_intel
    report,       \* the handler's locals report_html, confidence_score
    last_result,  \* st.session_state.last_result
    x_intel_result, \* st.session_state.x_intel_result
    search1,      \* the first Tavily search of the run
    search2,      \* the second Tavily search of the run
    grok,         \* the Grok call of the run
    verify_arg,   \* the news_data verify_news was called with
    events,       \* the calls of the run, in order
    before        \* the store and the session when the run was submitted

storeVars == <<exists, content, active, wpc, new_entry, history, wpos, calls,
               crashes, log, fresh, pre>>

parseVars == <<raw, ppc, ppos, current_section, confidence, key_findings,
               unverified, summary, re_findings, re_unverified>>

runVars == <<env, rpc, runs, topic, demo_mode, news_results,
             verification_report, x_intel, report, last_result,
             x_intel_result, search1, search2, grok, verify_arg, events,
             before>>

vars == <<storeVars, parseVars, runVars>>

E1 == NewEntry(1, "A", "85", "", "None")

(***************************************************************************)
(* What history.json can hold when the program starts.                     *)
(***************************************************************************)
InitialStores ==
    { [kind |-> "missing",   ex |-> FALSE, c |-> <<>>],
      [kind |-> "empty",     ex |-> TRUE,  c |-> <<>>],
      [kind |-> "emptylist", ex |-> TRUE,  c |-> json_dump(<<>>)],
      [kind |-> "populated", ex |-> TRUE,  c |-> json_dump(<<ObjTok(E1)>>)],
      [kind |-> "junk",      ex |-> TRUE,  c |-> <<Tok("junk")>>],
      [kind |-> "truncated", ex |-> TRUE,  c |-> <<Tok("["), ObjTok(E1)>>],
      [kind |-> "dict",      ex |-> TRUE,  c |-> <<ObjTok(E1)>>],
      [kind |-> "null",      ex |-> TRUE,  c |-> <<Tok("null")>>],
      [kind |-> "number",    ex |-> TRUE,  c |-> <<Tok("num")>>] }

(***************************************************************************)
(* The history the store holds now: what load_history() returns when that  *)
(* is a list, else none.                                                   *)
(***************************************************************************)
Committed ==
    LET h == load_history(exists, content)
    IN  IF h.kind = "list" THEN h.items ELSE <<>>

StoreInit ==
    /\ \E s \in InitialStores :
          /\ exists = s.ex
          /\ content = s.c
          /\ fresh = (s.kind \in {"missing", "empty", "emptylist"})
          /\ \/ active = {"w1"}
             \/ active = Writers /\ s.kind \in {"missing", "populated"}
    /\ wpc = [w \in Writers |-> "idle"]
    /\ new_entry = [w \in Writers |-> NoEntry]
    /\ history = [w \in Writers |-> PyList(<<>>)]
    /\ wpos = [w \in Writers |-> 0]
    /\ calls = 0
    /\ crashes = 0
    /\ log = <<>>
    /\ pre = [w \in Writers |-> <<>>]

(***************************************************************************)
(* save_search, lines 11-19: timestamp and new_entry.                      *)
(***************************************************************************)
Call(w) ==
    /\ w \in active
    /\ wpc[w] = "idle"
    /\ calls < (IF active = Writers THEN MaxRaceAppends ELSE MaxAppends)
    /\ \E ts \in Times, rq \in Requests :
          new_entry' = [new_entry EXCEPT
                           ![w] = NewEntry(ts, rq[1], rq[2], "", "None")]
    /\ wpc' = [wpc EXCEPT ![w] = "load"]
    /\ calls' = calls + 1
    /\ UNCHANGED <<runVars, parseVars,
                   exists, content, active, history, wpos, crashes,
                   log, fresh, pre>>

(***************************************************************************)
(* save_search, line 22: history = load_history().                         *)
(***************************************************************************)
Load(w) ==
    /\ wpc[w] = "load"
    /\ history' = [history EXCEPT ![w] = load_history(exists, content)]
    /\ pre' = [pre EXCEPT ![w] = Committed]
    /\ wpc' = [wpc EXCEPT ![w] = "insert"]
    /\ UNCHANGED <<runVars, parseVars,
                   exists, content, active, new_entry, wpos, calls,
                   crashes, log, fresh>>

(***************************************************************************)
(* save_search, line 25: history.insert(0, new_entry).  Only a list has    *)
(* insert: on a dict, an int or None the call raises AttributeError.       *)
(***************************************************************************)
Insert(w) ==
    /\ wpc[w] = "insert"
    /\ IF history[w].kind = "list"
       THEN /\ history' = [history EXCEPT
                   ![w].items = insert_front(history[w].items, new_entry[w])]
            /\ wpc' = [wpc EXCEPT ![w] = "open"]
       ELSE /\ wpc' = [wpc EXCEPT ![w] = "raised"]
            /\ UNCHANGED history
    /\ UNCHANGED <<runVars, parseVars,
                   exists, content, active, new_entry, wpos, calls,
                   crashes, log, fresh, pre>>

(***************************************************************************)
(* save_search, line 28: open(HISTORY_FILE, 'w') creates or truncates.     *)
(***************************************************************************)
Open(w) ==
    /\ wpc[w] = "open"
    /\ exists' = TRUE
    /\ content' = <<>>
    /\ wpos' = [wpos EXCEPT ![w] = 0]
    /\ wpc' = [wpc EXCEPT ![w] = "write"]
    /\ UNCHANGED <<runVars, parseVars,
                   active, new_entry, history, calls, crashes, log,
                   fresh, pre>>

(***************************************************************************)
(* save_search, line 29: json.dump writes the document chunk by chunk at   *)
(* this file object's own offset.                                          *)
(***************************************************************************)
Write(w) ==
    /\ wpc[w] = "write"
    /\ wpos[w] < Len(json_dump(history[w].items))
    /\ content' = WriteAt(content, wpos[w] + 1,
                          json_dump(history[w].items)[wpos[w] + 1])
    /\ wpos' = [wpos EXCEPT ![w] = wpos[w] + 1]
    /\ UNCHANGED <<runVars, parseVars,
                   exists, active, wpc, new_entry, history, calls,
                   crashes, log, fresh, pre>>

(***************************************************************************)
(* save_search, end of the with block: the file is closed, the call        *)
(* returns.                                                                *)
(***************************************************************************)
Close(w) ==
    /\ wpc[w] = "write"
    /\ wpos[w] = Len(json_dump(history[w].items))
    /\ wpc' = [wpc EXCEPT ![w] = "done"]
    /\ log' = <<new_entry[w]>> \o log
    /\ UNCHANGED <<runVars, parseVars,
                   exists, content, active, new_entry, history,
                   wpos, calls, crashes, fresh, pre>>

(***************************************************************************)
(* The caller goes on: save_search's locals are gone.                      *)
(***************************************************************************)
Return(w) ==
    /\ wpc[w] \in {"done", "raised"}
    /\ wpc' = [wpc EXCEPT ![w] = "idle"]
    /\ new_entry' = [new_entry EXCEPT ![w] = NoEntry]
    /\ history' = [history EXCEPT ![w] = PyList(<<>>)]
    /\ wpos' = [wpos EXCEPT ![w] = 0]
    /\ pre' = [pre EXCEPT ![w] = <<>>]
    /\ UNCHANGED <<runVars, parseVars,
                   exists, content, active, calls, crashes, log,
                   fresh>>

(***************************************************************************)
(* The process dies inside save_search: what is in the file stays, what    *)
(* was not yet written is lost.                                            *)
(***************************************************************************)
Crash(w) ==
    /\ wpc[w] \in {"load", "insert", "open", "write"}
    /\ crashes < MaxCrashes
    /\ crashes' = crashes + 1
    /\ wpc' = [wpc EXCEPT ![w] = "idle"]
    /\ new_entry' = [new_entry EXCEPT ![w] = NoEntry]
    /\ history' = [history EXCEPT ![w] = PyList(<<>>)]
    /\ wpos' = [wpos EXCEPT ![w] = 0]
    /\ pre' = [pre EXCEPT ![w] = <<>>]
    /\ UNCHANGED <<runVars, parseVars,
                   exists, content, active, calls, log, fresh>>

StoreNext ==
    \/ \E w \in Writers : Call(w)
    \/ \E w \in Writers : Load(w)
    \/ \E w \in Writers : Insert(w)
    \/ \E w \in Writers : Open(w)
    \/ \E w \in Writers : Write(w)
    \/ \E w \in Writers : Close(w)
    \/ \E w \in Writers : Return(w)
    \/ \E w \in Writers : Crash(w)

(***************************************************************************)
(* Properties of the history store.                                        *)
(***************************************************************************)
IsSuffix(s, t) ==
    /\ Len(s) <= Len(t)
    /\ \A i \in 1..Len(s) : s[i] = t[Len(t) - Len(s) + i]

LogItems == [i \in 1..Len(log) |-> ObjTok(log[i])]

SingleWriter(w) == active = {w}

\* C1: starting from a missing or empty store, with one writer and no crash,
\* whenever no write is under way load_history() returns exactly the entries
\* whose save_search returned, newest first, whatever their timestamps.
C1_HistoryNewestFirst ==
    \A w \in Writers :
        ( /\ SingleWriter(w)
          /\ fresh
          /\ crashes = 0
          /\ wpc[w] # "write" )
        => load_history(exists, content) = PyList(LogItems)

\* Three appends A, B, A have returned; the newest entry carries an older
\* timestamp than the one before it, and the store lists them newest first.
C1_Witness ==
    /\ SingleWriter("w1")
    /\ fresh
    /\ crashes = 0
    /\ wpc["w1"] = "idle"
    /\ Len(log) = 3
    /\ log[3].topic = "A" /\ log[2].topic = "B" /\ log[1].topic = "A"
    /\ log[1].timestamp < log[2].timestamp
    /\ Committed = LogItems

\* C2: for every prior content of the store (missing, empty, populated or
\* corrupted), once save_search(topic, confidence) has ended, the first
\* element of load_history() has that topic and that confidence_score.
C2_AppendThenLoadFirst ==
    \A w \in Writers :
        (SingleWriter(w) /\ wpc[w] \in {"done", "raised"})
        => LET h == load_history(exists, content)
           IN  /\ h.kind = "list"
               /\ Len(h.items) >= 1
               /\ h.items[1].t = "obj"
               /\ h.items[1].v.topic = new_entry[w].topic
               /\ h.items[1].v.confidence_score = new_entry[w].confidence_score

\* The store holds a well-formed sequence of history entries.
WellFormedStore ==
    /\ exists
    /\ IsListText(content)
    /\ \A i \in 1..Len(Elements(content)) : Elements(content)[i].t = "obj"

\* C3: on a missing store and on every store content that is not a
\* well-formed sequence of history entries, load_history() returns [].
C3_LoadOfMissingOrCorruptIsEmpty ==
    ~WellFormedStore => load_history(exists, content) = PyList(<<>>)

Indices == -2 .. (MaxAppends + 2)

\* C4: get_search_by_index(i) never raises; it returns None for every i < 0
\* and every i >= the length of the history, and element i of the history
\* for every other i (a store that holds no history has length 0).
C4_GetByIndexInRangeOnly ==
    \A index \in Indices :
        LET r == get_search_by_index(load_history(exists, content), index)
        IN  IF 0 <= index /\ index < Len(Committed)
            THEN r = Result("value", Committed[index + 1])
            ELSE r = Result("None", Tok("-"))

\* Where load_history() returns a list, get_search_by_index does return
\* None outside [0, length) and the element inside it.
GetByIndexOnLists ==
    load_history(exists, content).kind = "list" => C4_GetByIndexInRangeOnly

\* C5: a crash of save_search between opening the file for writing and the
\* end of the write leaves every entry committed before that call in the
\* history load_history() returns.
C5_CrashKeepsCommitted ==
    [][\A w \in Writers :
          (SingleWriter(w) /\ wpc[w] = "write" /\ wpc'[w] = "idle")
          => LET after == load_history(exists', content')
             IN  after.kind = "list" /\ IsSuffix(pre[w], after.items)]_vars

\* C6: with a single writer, every save_search that returns leaves the
\* history exactly one entry longer than it was when the call began.
C6_SingleWriterAppendAddsOne ==
    \A w \in Writers :
        (SingleWriter(w) /\ wpc[w] = "done")
        => Len(Committed) = Len(pre[w]) + 1

\* C6, two writers: both loaded the empty store before either wrote, both
\* calls returned, and the store holds only the entry of the writer that
\* wrote last.
C6_Witness ==
    /\ active = Writers
    /\ fresh
    /\ wpc["w1"] = "done" /\ wpc["w2"] = "done"
    /\ Len(history["w1"].items) = 1 /\ Len(history["w2"].items) = 1
    /\ new_entry["w1"] # new_entry["w2"]
    /\ Len(log) = 2
    /\ Committed = <<ObjTok(log[1])>>
    /\ \A i \in 1..Len(Committed) : Committed[i] # ObjTok(log[2])


(***************************************************************************)
(* The normalizer at rest, and the store at rest.                          *)
(***************************************************************************)
ParseIdle ==
    /\ raw = <<>>
    /\ ppc = "idle"
    /\ ppos = 0
    /\ current_section = ParseStart.current_section
    /\ confidence = ParseStart.confidence
    /\ key_findings = ParseStart.key_findings
    /\ unverified = ParseStart.unverified
    /\ summary = ParseStart.summary
    /\ re_findings = <<>>
    /\ re_unverified = <<>>

StoreIdle ==
    /\ exists = FALSE
    /\ content = <<>>
    /\ fresh = TRUE
    /\ active = {"w1"}
    /\ wpc = [w \in Writers |-> "idle"]
    /\ new_entry = [w \in Writers |-> NoEntry]
    /\ history = [w \in Writers |-> PyList(<<>>)]
    /\ wpos = [w \in Writers |-> 0]
    /\ calls = 0
    /\ crashes = 0
    /\ log = <<>>
    /\ pre = [w \in Writers |-> <<>>]

(***************************************************************************)
(* parse_gemini_to_html(gemini_response, topic), lines 171-179: the text   *)
(* is split into lines and the sections are initialised.                   *)
(***************************************************************************)
ParseInit ==
    /\ raw \in RawTexts
    /\ ppc = "scan"
    /\ ppos = 0
    /\ current_section = ParseStart.current_section
    /\ confidence = ParseStart.confidence
    /\ key_findings = ParseStart.key_findings
    /\ unverified = ParseStart.unverified
    /\ summary = ParseStart.summary
    /\ re_findings = <<>>
    /\ re_unverified = <<>>

Cur ==
    [confidence |-> confidence, key_findings |-> key_findings,
     unverified |-> unverified, summary |-> summary,
     current_section |-> current_section]

(***************************************************************************)
(* Lines 181-202: the loop takes the next line.                            *)
(***************************************************************************)
ParseLine ==
    /\ ppc = "scan"
    /\ ppos < Len(raw)
    /\ LET st == Step(Cur, raw[ppos + 1])
       IN  /\ current_section' = st.current_section
           /\ confidence' = st.confidence
           /\ key_findings' = st.key_findings
           /\ unverified' = st.unverified
           /\ summary' = st.summary
    /\ ppos' = ppos + 1
    /\ UNCHANGED <<runVars, storeVars, raw, ppc, re_findings, re_unverified>>

(***************************************************************************)
(* Lines 204-256: the loop is over, the report is built and returned with  *)
(* the confidence.                                                         *)
(***************************************************************************)
ParseReturn ==
    /\ ppc = "scan"
    /\ ppos = Len(raw)
    /\ ppc' = "done"
    /\ UNCHANGED <<runVars, storeVars, raw, ppos, current_section, confidence,
                   key_findings, unverified, summary, re_findings,
                   re_unverified>>

(***************************************************************************)
(* The lists are written out in the canonical layout and the normalizer    *)
(* scans that text.                                                        *)
(***************************************************************************)
Renormalize ==
    /\ ppc = "done"
    /\ LET st == Scan(ParseStart, CanonicalText(key_findings, unverified))
       IN  /\ re_findings' = st.key_findings
           /\ re_unverified' = st.unverified
    /\ ppc' = "reparsed"
    /\ UNCHANGED <<runVars, storeVars, raw, ppos, current_section, confidence,
                   key_findings, unverified, summary>>

ParseNext ==
    \/ ParseLine
    \/ ParseReturn
    \/ Renormalize

(***************************************************************************)
(* Properties of the normalizer.                                           *)
(***************************************************************************)
\* The trimmed line begins with the marker CONFIDENCE:
BeginsWithMarker(rawline) ==
    LET t == strip(rawline) IN Len(t) > 0 /\ t[1] = CONF

\* The trimmed line starts with a bullet glyph.
StartsWithGlyph(rawline) ==
    LET t == strip(rawline) IN Len(t) > 0 /\ t[1] \in Glyphs

\* The upper-cased line holds a header keyword.
HoldsKeyword(rawline) ==
    \E i \in 1..Len(rawline) :
        UpperAtom(rawline[i]) \in {"KEY FINDINGS", "UNVERIFIED", "SUMMARY"}

\* A section header: a line that holds a header keyword and is no
\* CONFIDENCE: line.
IsHeaderLine(rawline) == HoldsKeyword(rawline) /\ ~BeginsWithMarker(rawline)

\* C7: as long as no scanned line begins, once trimmed, with CONFIDENCE:,
\* the confidence is the literal "N/A"; so it is for a whole text without
\* such a line.
C7_NoMarkerGivesNA ==
    (\A i \in 1..ppos : ~BeginsWithMarker(raw[i])) => confidence = NA

\* A text is scanned to its end; one of its lines holds CONFIDENCE: but not
\* at its start, and the confidence returned is "N/A".
C7_Witness ==
    /\ ppc = "done"
    /\ \E i \in 1..Len(raw) : contains(raw[i], CONF)
    /\ \A i \in 1..Len(raw) : ~BeginsWithMarker(raw[i])
    /\ confidence = NA

\* C8: as long as no section header has been scanned, findings and
\* unverified are empty: the bullet lines scanned so far are in neither.
C8_BulletsBeforeHeaderDropped ==
    (\A i \in 1..ppos : ~IsHeaderLine(raw[i]))
    => key_findings = <<>> /\ unverified = <<>>

\* Two bullet lines came before any header and were scanned; both lists
\* are still empty.
C8_Witness ==
    /\ ppos = 2
    /\ StartsWithGlyph(raw[1]) /\ ~HoldsKeyword(raw[1])
    /\ StartsWithGlyph(raw[2]) /\ ~HoldsKeyword(raw[2])
    /\ key_findings = <<>> /\ unverified = <<>>

\* The upper-cased line holds SUMMARY.
HoldsSummary(rawline) ==
    \E i \in 1..Len(rawline) : UpperAtom(rawline[i]) = "SUMMARY"

\* C9: a bullet line scanned in the findings section whose text holds
\* SUMMARY leaves the section at findings and is appended to findings as a
\* bullet.
C9_BulletWithKeywordIsBullet ==
    [][( /\ ppc = "scan" /\ ppos < Len(raw)
         /\ current_section = "findings"
         /\ StartsWithGlyph(raw[ppos + 1])
         /\ HoldsSummary(raw[ppos + 1])
         /\ ppos' = ppos + 1 )
       => /\ current_section' = "findings"
          /\ key_findings' =
                Append(key_findings, bullet_text(strip(raw[ppos + 1])))]_vars

\* C10: the scan of the canonical text rebuilt from the findings and the
\* unverified list gives the same two lists, in the same order.
C10_RenormalizeSameLists ==
    ppc = "reparsed"
    => re_findings = key_findings /\ re_unverified = unverified

(***************************************************************************)
(* Dashboard.py, the three fetchers.  A Tavily search answers with up to   *)
(* MaxResults results; the results of the search of the past year and of   *)
(* the search of all times are told apart by their urls.                   *)
(***************************************************************************)
MaxResults == 3        \* results one Tavily search answers with

\* line 108: below this many results the search is made again
MinRecent == 3

SearchResults(time_range, n) ==
    [i \in 1..n |-> [url |-> <<time_range, i>>, title |-> "t",
                     content |-> "c", score |-> i]]

\* lines 99-105 and 116-121: url, content and title of each result
news_data_of(results) ==
    [i \in 1..Len(results) |-> [url |-> results[i].url,
                                content |-> results[i].content,
                                title |-> results[i].title]]

NeedsSecondSearch_atmost(news_data) == Len(news_data) <= MinRecent

\* line 108
NeedsSecondSearch(news_data) == Len(news_data) < MinRecent

NoSearch == [called |-> FALSE, raised |-> FALSE, results |-> <<>>]
Searched(results) == [called |-> TRUE, raised |-> FALSE, results |-> results]
SearchRaised == [called |-> TRUE, raised |-> TRUE, results |-> <<>>]

\* Python values of the handler's locals: None, a list, a string (the
\* lines of its text), a dict.
PyNone == [kind |-> "NoneType"]
PyItems(items) == [kind |-> "list", items |-> items]
PyStr(lines) == [kind |-> "str", lines |-> lines]

Truthy_list(value) ==
    CASE value.kind = "NoneType" -> FALSE
      [] value.kind = "str" -> value.lines # <<<<>>>>
      [] OTHER -> TRUE

\* bool(value) of a local: None, [] and "" are false
Truthy(value) ==
    CASE value.kind = "NoneType" -> FALSE
      [] value.kind = "list" -> Len(value.items) > 0
      [] value.kind = "str" -> value.lines # <<<<>>>>
      [] OTHER -> TRUE

(***************************************************************************)
(* get_x_intel, lines 68-80.  The text of the Grok answer is a sequence of *)
(* atoms: the fence, the language tag json, white space, a JSON object and *)
(* text that is no JSON.                                                   *)
(***************************************************************************)
\* the code fence, three backquotes
FENCE == "FENCE"
JSONOBJ == "{...}"
TextWhitespace == {" ", "\n"}

GrokTexts ==
    { <<JSONOBJ>>,
      <<FENCE, "json", "\n", JSONOBJ, "\n", FENCE>>,
      <<"junk">>,
      <<" ", "junk", "\n">>,
      <<FENCE, "json", "\n", "junk", "\n", FENCE>>,
      <<FENCE, "\n", "junk", FENCE, "junk">> }

\* str.strip() of a text with line ends
text_strip(text) == rstrip(lstrip(text, TextWhitespace), TextWhitespace)

\* content.split(fence)[1] of a text that starts with the fence
RECURSIVE UpToFence(_)
UpToFence(text) ==
    IF Len(text) = 0 \/ text[1] = FENCE THEN <<>>
    ELSE <<text[1]>> \o UpToFence(Tail(text))

\* lines 68-74
unfence(text) ==
    LET c1 == text_strip(text)
        c2 == IF startswith(c1, FENCE) THEN UpToFence(Tail(c1)) ELSE c1
        c3 == IF startswith(c1, FENCE) /\ startswith(c2, "json")
              THEN Tail(c2) ELSE c2
    IN  text_strip(c3)

\* json.loads(content) succeeds
IsJson(cont) == cont = <<JSONOBJ>>

Unassigned == [kind |-> "unassigned"]
XData(cont) == [kind |-> "dict", error |-> FALSE, hasraw |-> FALSE,
                raw |-> <<>>, data |-> cont]
XError(msg) == [kind |-> "dict", error |-> TRUE, hasraw |-> FALSE,
                raw |-> <<>>, data |-> <<msg>>]
XParseError(cont) == [kind |-> "dict", error |-> TRUE, hasraw |-> TRUE,
                      raw |-> cont, data |-> <<"Failed to parse">>]

\* lines 76-78
x_intel_of(text) ==
    LET cont == unfence(text)
    IN  IF IsJson(cont) THEN XData(cont) ELSE XParseError(cont)

NoCall == [called |-> 0, raised |-> FALSE, text |-> <<>>]

(***************************************************************************)
(* parse_gemini_to_html, lines 204-256: the markup built from the lists.   *)
(* At most MaxShown items of a list are shown; an empty list and an empty  *)
(* summary are shown as a fixed sentence.                                  *)
(***************************************************************************)
MaxShown == 5

NO_FINDINGS == <<"No confirmed facts extracted from sources.">>
NO_UNVERIFIED == <<"No unverified claims detected.">>
NO_SUMMARY == <<"Analysis complete. See findings above for details.">>

\* items[:n]
Take(items, n) == SubSeq(items, 1, IF Len(items) < n THEN Len(items) ELSE n)

report_html_bare(st) ==
    [facts |-> Take(st.key_findings, MaxShown),
     claims |-> Take(st.unverified, MaxShown),
     summary |-> strip(st.summary)]

report_html_of(st) ==
    [facts |-> IF st.key_findings = <<>> THEN <<NO_FINDINGS>>
               ELSE Take(st.key_findings, MaxShown),
     claims |-> IF st.unverified = <<>> THEN <<NO_UNVERIFIED>>
                ELSE Take(st.unverified, MaxShown),
     summary |-> IF strip(st.summary) # <<>> THEN strip(st.summary)
                 ELSE NO_SUMMARY]

\* a confidence_score: the text the normalizer returns, or the int of the
\* demo
ConfStr(atoms) == [kind |-> "str", text |-> atoms]
ConfInt(digits) == [kind |-> "int", text |-> <<digits>>]

NoReport == [html |-> report_html_of(ParseStart), confidence |-> ConfStr(NA),
             st |-> ParseStart]

\* lines 171-256: return html, confidence
parse_gemini_to_html(gemini_response) ==
    LET st == Scan(ParseStart, gemini_response)
    IN  [html |-> report_html_of(st), confidence |-> ConfStr(st.confidence),
         st |-> st]

(***************************************************************************)
(* verify_news, lines 128-167.  The texts Gemini answers with, as lines.   *)
(***************************************************************************)
EmptyText == <<<<>>>>
GEMINI_KEY_MISSING == <<<<"Error: Gemini API Key missing.">>>>
GEMINI_ERROR == <<<<"Error connecting to Gemini">>>>

GeminiTexts ==
    { EmptyText,
      << <<CONF, " ", "85">>, <<"KEY FINDINGS", ":">>, <<BULLET, " ", "x">>,
         <<"UNVERIFIED", ":">>, <<"-", " ", "y", " ">>, <<"SUMMARY", ":">>,
         <<"x", " ", "y">> >>,
      << <<CONF, " ", "150">> >> }

(***************************************************************************)
(* Dashboard.py, lines 643-791: a run of the submit handler.               *)
(***************************************************************************)
MaxRuns == 1           \* submits in one behaviour

Environments ==
    { {"TAVILY_API_KEY", "GEMINI_API_KEY", "XAI_API_KEY"},
      {"TAVILY_API_KEY", "GEMINI_API_KEY"},
      {"TAVILY_API_KEY", "Gemini API Key"} }

\* the topic typed and the demo checkbox
Submits ==
    { <<"", FALSE>>, <<"A", FALSE>>, <<"dubai storm", TRUE>> }

\* an entry of an earlier session
E0 == NewEntry(0, "old", ConfStr(<<"85">>), report_html_of(ParseStart),
               XError("old"))

RunStores ==
    { [ex |-> FALSE, c |-> <<>>],
      [ex |-> TRUE, c |-> json_dump(<<ObjTok(E0)>>)],
      [ex |-> TRUE, c |-> <<Tok("null")>>] }

\* save_search as one step: what the file holds afterwards, or raised
save_search(fexists, fcontent, entry) ==
    LET h == load_history(fexists, fcontent)
    IN  IF h.kind = "list"
        THEN [raised |-> FALSE,
              content |-> json_dump(insert_front(h.items, entry))]
        ELSE [raised |-> TRUE, content |-> fcontent]

Snapshot ==
    [exists |-> exists, content |-> content, last_result |-> last_result,
     x_intel_result |-> x_intel_result]

NoSnapshot ==
    [exists |-> FALSE, content |-> <<>>, last_result |-> PyNone,
     x_intel_result |-> PyNone]

Result_of(t, conf, html, sources) ==
    [kind |-> "dict", topic |-> t, confidence |-> conf, report_html |-> html,
     sources |-> sources]

RunLocalsIdle ==
    /\ topic = ""
    /\ demo_mode = FALSE
    /\ news_results = Unassigned
    /\ verification_report = Unassigned
    /\ x_intel = Unassigned
    /\ report = NoReport
    /\ search1 = NoSearch
    /\ search2 = NoSearch
    /\ grok = NoCall
    /\ verify_arg = Unassigned
    /\ events = <<>>
    /\ before = NoSnapshot

\* lines 22-25: the session state at the start of a session
RunIdle ==
    /\ env = {}
    /\ rpc = "off"
    /\ runs = 0
    /\ last_result = PyNone
    /\ x_intel_result = PyNone
    /\ RunLocalsIdle

RunInit ==
    /\ env \in Environments
    /\ rpc = "idle"
    /\ runs = 0
    /\ last_result = PyNone
    /\ x_intel_result = PyNone
    /\ RunLocalsIdle
    /\ \E s \in RunStores : exists = s.ex /\ content = s.c
    /\ fresh = TRUE
    /\ active = {"w1"}
    /\ wpc = [w \in Writers |-> "idle"]
    /\ new_entry = [w \in Writers |-> NoEntry]
    /\ history = [w \in Writers |-> PyList(<<>>)]
    /\ wpos = [w \in Writers |-> 0]
    /\ calls = 0
    /\ crashes = 0
    /\ log = <<>>
    /\ pre = [w \in Writers |-> <<>>]

runLocals == <<news_results, verification_report, x_intel, report, search1,
               search2, grok, verify_arg>>
session == <<last_result, x_intel_result>>
fixedVars == <<parseVars, env, runs, active, wpc, new_entry, history, wpos,
               calls, crashes, log, fresh, pre>>

\* line 643: the button is pressed
Submit ==
    /\ rpc = "idle"
    /\ runs < MaxRuns
    /\ \E sub \in Submits : topic' = sub[1] /\ demo_mode' = sub[2]
    /\ runs' = runs + 1
    /\ before' = Snapshot
    /\ rpc' = "submitted"
    /\ UNCHANGED <<parseVars, env, active, wpc, new_entry, history, wpos,
                   calls, crashes, log, fresh, pre, exists, content,
                   runLocals, session, events>>

\* lines 647-648
EmptyTopic ==
    /\ rpc = "submitted"
    /\ topic = ""
    /\ rpc' = "ended"
    /\ UNCHANGED <<fixedVars, exists, content, runLocals, session, events,
                   topic, demo_mode, before>>

IsDemo == demo_mode /\ topic = "dubai storm"

DemoHtml == [facts |-> << <<"demo">> >>, claims |-> << <<"demo">> >>,
             summary |-> <<"demo">>]

\* lines 651-751: the demo
Demo ==
    /\ rpc = "submitted"
    /\ topic # ""
    /\ IsDemo
    /\ LET sv == save_search(exists, content,
                     NewEntry(runs, "Dubai Storm (Demo)", ConfInt("100"),
                              DemoHtml, XData(<<"demo">>)))
       IN  IF sv.raised
           THEN /\ rpc' = "raised"
                /\ UNCHANGED <<exists, content, session, events>>
           ELSE /\ exists' = TRUE
                /\ content' = sv.content
                /\ last_result' = Result_of("Dubai Storm", ConfInt("100"),
                                            DemoHtml, <<>>)
                /\ x_intel_result' = XData(<<"demo">>)
                /\ events' = <<"save_search", "display">>
                /\ rpc' = "ended"
    /\ UNCHANGED <<fixedVars, runLocals, topic, demo_mode, before>>

\* lines 754-755
MissingKeys ==
    /\ rpc = "submitted"
    /\ topic # ""
    /\ ~IsDemo
    /\ "TAVILY_API_KEY" \notin env \/ "GEMINI_API_KEY" \notin env
    /\ rpc' = "ended"
    /\ UNCHANGED <<fixedVars, exists, content, runLocals, session, events,
                   topic, demo_mode, before>>

\* lines 756-758
StartReal ==
    /\ rpc = "submitted"
    /\ topic # ""
    /\ ~IsDemo
    /\ "TAVILY_API_KEY" \in env /\ "GEMINI_API_KEY" \in env
    /\ news_results' = PyNone
    /\ verification_report' = PyNone
    /\ rpc' = "get_live_news"
    /\ UNCHANGED <<fixedVars, exists, content, session, events, topic,
                   demo_mode, before, x_intel, report, search1, search2,
                   grok, verify_arg>>

\* lines 762 and 84-88: get_live_news looks for its key
GetLiveNews ==
    /\ rpc = "get_live_news"
    /\ events' = Append(events, "get_live_news")
    /\ IF "Tavily API Key" \in env \/ "TAVILY_API_KEY" \in env
       THEN rpc' = "search1" /\ UNCHANGED news_results
       ELSE rpc' = "fetched" /\ news_results' = PyNone
    /\ UNCHANGED <<fixedVars, exists, content, session, topic, demo_mode,
                   before, verification_report, x_intel, report, search1,
                   search2, grok, verify_arg>>

\* lines 90-108: the search of the past year
Search1 ==
    /\ rpc = "search1"
    /\ \/ /\ search1' = SearchRaised
          /\ news_results' = PyItems(<<>>)
          /\ rpc' = "fetched"
       \/ \E n \in 0..MaxResults :
             LET results == SearchResults("year", n)
                 news_data == news_data_of(results)
             IN  /\ search1' = Searched(results)
                 /\ IF NeedsSecondSearch(news_data)
                    THEN rpc' = "search2" /\ UNCHANGED news_results
                    ELSE rpc' = "fetched" /\ news_results' = PyItems(news_data)
    /\ UNCHANGED <<fixedVars, exists, content, session, topic, demo_mode,
                   before, verification_report, x_intel, report, search2,
                   grok, verify_arg, events>>

\* lines 109-126: the search without time_range
Search2 ==
    /\ rpc = "search2"
    /\ \/ /\ search2' = SearchRaised
          /\ news_results' = PyItems(<<>>)
       \/ \E n \in 0..MaxResults :
             LET results == SearchResults("all", n)
             IN  /\ search2' = Searched(results)
                 /\ news_results' = PyItems(news_data_of(results))
    /\ rpc' = "fetched"
    /\ UNCHANGED <<fixedVars, exists, content, session, topic, demo_mode,
                   before, verification_report, x_intel, report, search1,
                   grok, verify_arg, events>>

AfterFetch_unconditional ==
    /\ rpc = "fetched"
    /\ rpc' = "verify_news"
    /\ UNCHANGED <<fixedVars, exists, content, session, topic, demo_mode,
                   before, runLocals, events>>

\* lines 764-773: if news_results
AfterFetch ==
    /\ rpc = "fetched"
    /\ rpc' = IF Truthy(news_results) THEN "verify_news" ELSE "check"
    /\ UNCHANGED <<fixedVars, exists, content, session, topic, demo_mode,
                   before, runLocals, events>>

\* lines 767 and 128-167
VerifyNews ==
    /\ rpc = "verify_news"
    /\ events' = Append(events, "verify_news")
    /\ verify_arg' = news_results
    /\ IF "Gemini API Key" \in env \/ "GEMINI_API_KEY" \in env
       THEN \/ \E text \in GeminiTexts : verification_report' = PyStr(text)
            \/ verification_report' = PyStr(GEMINI_ERROR)
       ELSE verification_report' = PyStr(GEMINI_KEY_MISSING)
    /\ rpc' = "get_x_intel"
    /\ UNCHANGED <<fixedVars, exists, content, session, topic, demo_mode,
                   before, news_results, x_intel, report, search1, search2,
                   grok>>

\* lines 769 and 37-80
GetXIntel ==
    /\ rpc = "get_x_intel"
    /\ events' = Append(events, "get_x_intel")
    /\ IF "XAI_API_KEY" \in env
       THEN \/ \E text \in GrokTexts :
                  /\ grok' = [called |-> 1, raised |-> FALSE, text |-> text]
                  /\ x_intel' = x_intel_of(text)
            \/ /\ grok' = [called |-> 1, raised |-> TRUE, text |-> <<>>]
               /\ x_intel' = XError("Error calling Grok API")
       ELSE /\ grok' = NoCall
            /\ x_intel' = XError("XAI_API_KEY not configured")
    /\ rpc' = "check"
    /\ UNCHANGED <<fixedVars, exists, content, session, topic, demo_mode,
                   before, news_results, verification_report, report,
                   search1, search2, verify_arg>>

\* line 775
CheckResults ==
    /\ rpc = "check"
    /\ rpc' = IF Truthy(news_results) /\ Truthy(verification_report)
              THEN "parse" ELSE "ended"
    /\ UNCHANGED <<fixedVars, exists, content, session, topic, demo_mode,
                   before, runLocals, events>>

\* line 777
Parse ==
    /\ rpc = "parse"
    /\ events' = Append(events, "parse_gemini_to_html")
    /\ report' = parse_gemini_to_html(verification_report.lines)
    /\ rpc' = "save_search"
    /\ UNCHANGED <<fixedVars, exists, content, session, topic, demo_mode,
                   before, news_results, verification_report, x_intel,
                   search1, search2, grok, verify_arg>>

\* line 780: save_search(topic, confidence_score, report_html, x_intel); to
\* read x_intel unassigned raises NameError
SaveSearch ==
    /\ rpc = "save_search"
    /\ IF x_intel = Unassigned
       THEN rpc' = "raised" /\ UNCHANGED <<exists, content, events>>
       ELSE LET sv == save_search(exists, content,
                          NewEntry(runs, topic, report.confidence,
                                   report.html, x_intel))
            IN  /\ events' = Append(events, "save_search")
                /\ IF sv.raised
                   THEN rpc' = "raised" /\ UNCHANGED <<exists, content>>
                   ELSE /\ exists' = TRUE
                        /\ content' = sv.content
                        /\ rpc' = "session"
    /\ UNCHANGED <<fixedVars, session, topic, demo_mode, before, runLocals>>

\* lines 783-789
SetSession ==
    /\ rpc = "session"
    /\ last_result' = Result_of(topic, report.confidence, report.html,
                                news_results.items)
    /\ x_intel_result' = x_intel
    /\ rpc' = "display"
    /\ UNCHANGED <<fixedVars, exists, content, topic, demo_mode, before,
                   runLocals, events>>

\* line 791
Display ==
    /\ rpc = "display"
    /\ events' = Append(events, "display")
    /\ rpc' = "ended"
    /\ UNCHANGED <<fixedVars, exists, content, session, topic, demo_mode,
                   before, runLocals>>

\* the script is over; its locals are gone
Finish ==
    /\ rpc \in {"ended", "raised"}
    /\ rpc' = "idle"
    /\ topic' = ""
    /\ demo_mode' = FALSE
    /\ news_results' = Unassigned
    /\ verification_report' = Unassigned
    /\ x_intel' = Unassigned
    /\ report' = NoReport
    /\ search1' = NoSearch
    /\ search2' = NoSearch
    /\ grok' = NoCall
    /\ verify_arg' = Unassigned
    /\ events' = <<>>
    /\ before' = NoSnapshot
    /\ UNCHANGED <<fixedVars, exists, content, session>>

RunNext ==
    \/ Submit \/ EmptyTopic \/ Demo \/ MissingKeys \/ StartReal
    \/ GetLiveNews \/ Search1 \/ Search2 \/ AfterFetch \/ VerifyNews
    \/ GetXIntel \/ CheckResults \/ Parse \/ SaveSearch \/ SetSession
    \/ Display \/ Finish

(***************************************************************************)
(* The run of the submit handler: the properties.                          *)
(***************************************************************************)

\* C11: once get_live_news is back and its first search, of the past year,
\* has answered: on fewer than 3 results a second search was made and the
\* result is the news data of the second search alone, whenever that one
\* answered; on 3 results or more no second search was made and the result
\* is the news data of the first search.
C11_FallbackReplaces ==
    (search1.called /\ ~search1.raised /\ rpc # "search2")
    => IF Len(search1.results) < 3
       THEN /\ search2.called
            /\ ~search2.raised
               => /\ news_results = PyItems(news_data_of(search2.results))
                  /\ \A i \in 1..Len(news_results.items) :
                        news_results.items[i].url[1] = "all"
       ELSE /\ ~search2.called
            /\ news_results = PyItems(news_data_of(search1.results))
            /\ \A i \in 1..Len(news_results.items) :
                  news_results.items[i].url[1] = "year"

C11_Witness ==
    /\ rpc = "fetched"
    /\ search1.called /\ Len(search1.results) = 2
    /\ search2.called /\ Len(search2.results) = 1
    /\ Len(news_results.items) = 1
    /\ news_results.items[1].url = <<"all", 1>>

\* C12: get_x_intel calls Grok at most once; when the answer is no JSON the
\* result is an error with a raw field equal to the text Grok answered
\* with, as it was before the fence and the language tag were stripped;
\* when the call failed or the key is missing the result is an error
\* without a raw field.
C12_RawIsOriginalText ==
    x_intel # Unassigned
    => /\ grok.called <= 1
       /\ (grok.called = 1 /\ ~grok.raised /\ ~IsJson(unfence(grok.text)))
          => x_intel.error /\ x_intel.hasraw /\ x_intel.raw = grok.text
       /\ (grok.called = 0 \/ grok.raised)
          => x_intel.error /\ ~x_intel.hasraw

\* The call was made in this run.
InEvents(e) == \E i \in 1..Len(events) : events[i] = e

\* The run came to an end in real mode, with the keys of the gate set.
RealRunEnded == rpc = "ended" /\ InEvents("get_live_news")

\* C13: a run in real mode ends without the append to the history and the
\* display only when get_live_news gave no item; with one item or more the
\* run makes the append and the display whatever text verify_news gave, the
\* empty text included, and whatever get_x_intel gave.
C13_OnlyEmptyEvidenceStops ==
    RealRunEnded
    => (Truthy(news_results)
           <=> InEvents("save_search") /\ InEvents("display"))

\* The confidence is "N/A", or a number from 0 to 100.
NumberOf(atom) ==
    CASE atom = "85" -> 85
      [] atom = "100" -> 100
      [] atom = "150" -> 150
      [] OTHER -> -1

InRange(conf) ==
    \/ conf.text = NA
    \/ LET t == strip(conf.text)
       IN  Len(t) = 1 /\ NumberOf(t[1]) >= 0 /\ NumberOf(t[1]) <= 100

\* The entry at the head of the history is the one this run appended.
RunSaved == InEvents("save_search") /\ rpc \in {"session", "display", "ended"}

\* C14: the confidence parse_gemini_to_html returns, and the
\* confidence_score a run in real mode appends to the history, is "N/A" or
\* a number that is at least 0 and at most 100.
C14_ConfidenceInRange ==
    /\ InEvents("parse_gemini_to_html") => InRange(report.confidence)
    /\ (RunSaved /\ InEvents("get_live_news"))
       => InRange(Committed[1].v.confidence_score)

\* The markup holds one of the three fixed sentences.
HasPlaceholder(html) ==
    \/ contains(html.facts, NO_FINDINGS)
    \/ contains(html.claims, NO_UNVERIFIED)
    \/ html.summary = NO_SUMMARY

\* C15 as stated: the report_html of the entry a run in real mode appends
\* holds none of the three fixed sentences.
C15_PlaceholdersNotPersisted ==
    (RunSaved /\ InEvents("get_live_news"))
    => ~HasPlaceholder(Committed[1].v.report_html)

\* C15: parse_gemini_to_html puts the fixed sentence in the markup it
\* returns exactly when the list, or the trimmed summary, is empty; the
\* lists themselves stay as scanned; and the entry the run appends holds
\* that markup, the fixed sentences included.
C15_PlaceholdersInReportHtml ==
    InEvents("parse_gemini_to_html")
    => /\ report.st = Scan(ParseStart, verification_report.lines)
       /\ contains(report.html.facts, NO_FINDINGS)
             <=> report.st.key_findings = <<>>
       /\ contains(report.html.claims, NO_UNVERIFIED)
             <=> report.st.unverified = <<>>
       /\ report.html.summary = NO_SUMMARY
             <=> strip(report.st.summary) = <<>>
       /\ RunSaved => Committed[1].v.report_html = report.html

C15_Witness ==
    /\ RunSaved
    /\ InEvents("get_live_news")
    /\ report.st.key_findings = <<>>
    /\ report.st.unverified = <<>>
    /\ Committed[1].v.report_html.facts = <<NO_FINDINGS>>
    /\ Committed[1].v.report_html.claims = <<NO_UNVERIFIED>>
    /\ Committed[1].v.report_html.summary = NO_SUMMARY

\* The section a header line names: KEY FINDINGS, else UNVERIFIED, else
\* SUMMARY.
SectionNamed(rawline) ==
    IF \E i \in 1..Len(rawline) : UpperAtom(rawline[i]) = "KEY FINDINGS"
    THEN "findings"
    ELSE IF \E i \in 1..Len(rawline) : UpperAtom(rawline[i]) = "UNVERIFIED"
    THEN "unverified"
    ELSE "summary"

\* The section after the first n lines: the one the last header line
\* among them names.
SectionAt(n) ==
    LET hs == {j \in 1..n : IsHeaderLine(raw[j])}
    IN  IF hs = {} THEN "None"
        ELSE SectionNamed(raw[CHOOSE j \in hs : \A k \in hs : k <= j])

\* A bullet line: it starts with a glyph and is no header line.
IsPlainBullet(rawline) == StartsWithGlyph(rawline) /\ ~IsHeaderLine(rawline)

\* The bullets among the first n lines that stand in section sec, in the
\* order of the text, without their leading glyphs and outer white space.
RECURSIVE Routed(_, _)
Routed(sec, n) ==
    IF n = 0 THEN <<>>
    ELSE Routed(sec, n - 1)
            \o (IF IsPlainBullet(raw[n]) /\ SectionAt(n) = sec
                THEN <<strip(lstrip(strip(raw[n]), BulletChars))>>
                ELSE <<>>)

\* C16: after every scanned line the current section is the one named by
\* the last header line (a line that holds a keyword and is no CONFIDENCE:
\* line); key_findings holds the bullets that stood in the
\* findings section and unverified those that stood in the unverified
\* section, in the order of the text; bullets in the summary section or in
\* no section, blank lines and CONFIDENCE: lines are in neither list and
\* change no section.
C16_BulletsRoutedBySection ==
    ppc \in {"scan", "done"}
    => /\ current_section = SectionAt(ppos)
       /\ key_findings = Routed("findings", ppos)
       /\ unverified = Routed("unverified", ppos)

C16_Witness ==
    /\ ppc = "done"
    /\ Len(raw) = 3
    /\ IsPlainBullet(raw[1])
    /\ IsHeaderLine(raw[2])
    /\ IsPlainBullet(raw[3])
    /\ key_findings = <<>>
    /\ Len(unverified) = 1

\* How often the call was made in this run, and one call before another.
Count(e) == Cardinality({i \in 1..Len(events) : events[i] = e})
Before(a, b) ==
    \E i, j \in 1..Len(events) : i < j /\ events[i] = a /\ events[j] = b

\* C17: in a run in real mode verify_news is called only after
\* get_live_news gave a result that is not empty, and with that result;
\* verify_news and get_x_intel are both back before save_search is called;
\* save_search is called before the display; get_live_news, verify_news
\* and get_x_intel are each called at most once, and Grok at most once.
C17_RunOrdering ==
    InEvents("get_live_news")
    => /\ Count("get_live_news") = 1
       /\ Count("verify_news") <= 1
       /\ Count("get_x_intel") <= 1
       /\ grok.called <= 1
       /\ InEvents("verify_news")
          => /\ Before("get_live_news", "verify_news")
             /\ verify_arg.kind = "list"
             /\ Len(verify_arg.items) > 0
             /\ verify_arg = news_results
       /\ InEvents("save_search")
          => /\ Before("verify_news", "save_search")
             /\ Before("get_x_intel", "save_search")
             /\ verification_report.kind = "str"
             /\ x_intel.kind = "dict"
       /\ InEvents("display") => Before("save_search", "display")

C17_Witness ==
    /\ rpc = "ended"
    /\ events = <<"get_live_news", "verify_news", "get_x_intel",
                  "parse_gemini_to_html", "save_search", "display">>

\* The run ended early: on an empty topic, on a missing key, or on a
\* get_live_news result that is None or empty.
EndedEarly ==
    /\ rpc = "ended"
    /\ \/ topic = ""
       \/ /\ ~IsDemo
          /\ "TAVILY_API_KEY" \notin env \/ "GEMINI_API_KEY" \notin env
       \/ /\ InEvents("get_live_news")
          /\ \/ news_results.kind = "NoneType"
             \/ news_results.kind = "list" /\ Len(news_results.items) = 0

\* C18: a run that ended early left the history file and the two session
\* values as they were when it was submitted; and save_search is reached
\* in real mode only with an x_intel that get_x_intel assigned in this run.
C18_EarlyEndChangesNothing ==
    /\ EndedEarly
       => /\ exists = before.exists
          /\ content = before.content
          /\ last_result = before.last_result
          /\ x_intel_result = before.x_intel_result
          /\ ~InEvents("save_search")
    /\ rpc = "save_search"
       => /\ x_intel # Unassigned
          /\ InEvents("get_x_intel")

C18_Witness ==
    /\ EndedEarly
    /\ InEvents("get_live_news")
    /\ search2.called
    /\ Len(Committed) = 1
    /\ content = before.content

Init == StoreInit /\ ParseIdle /\ RunIdle
Next == StoreNext
Spec == Init /\ [][Next]_vars

InitParse == ParseInit /\ StoreIdle /\ RunIdle
SpecParse == InitParse /\ [][ParseNext]_vars

InitRun == RunInit /\ ParseIdle
SpecRun == InitRun /\ [][RunNext]_vars

=============================================================================
